---- MODULE Spec2Model ----
(***************************************************************************)
(* Whisper: a VST noise synthesiser with one parameter (amplitude) and an  *)
(* embedded egui editor (src/src/lib.rs).                                   *)
(*                                                                          *)
(* Numbers.  f32 values are modelled exactly on a dyadic grid:              *)
(*   - amplitudes and random draws are integers in units of 1/One          *)
(*     (One = 4, so 2 is 0.5 and 4 is 1.0);                                 *)
(*   - samples are integers in units of 1/(One*One), so One*One is 1.0.    *)
(* On this grid every product and difference of process() is exact in f32. *)
(* The note counter is a u8: arithmetic is modulo 2^8 in a build without   *)
(* overflow checks and panics in a build with them.                         *)
(***************************************************************************)
EXTENDS Integers, Sequences, FiniteSets, TLC

\* ------------------------------------------------------------------ bounds
MaxEvents == 3
MaxBatch == 2
NumSamples == 1

\* --------------------------------------------------------------- constants
U8Mod == 256
NOTE_ON == 144
NOTE_OFF == 128
One == 4
DefaultAmplitude == 2
NumChannels == 2

\* Inputs the host, the user and the random generator can supply.
StatusBytes == {NOTE_ON, NOTE_OFF, 145, 129, 176}
EventKinds == [kind : {"Midi"}, data0 : StatusBytes] \cup {[kind |-> "SysEx", data0 |-> 0]}
HostVals == {0, One, One + 1}
EditVals == {0, One}
Indices == {-1, 0, 1}
RandVals == {0, One - 1}
Parents == {"hwndA", "hwndB"}
Dirty == 99
PriorVals == {0, Dirty}
\* What the user does to the slider in a frame: nothing, or drag it to a value.
NoEdit == <<>>
Edits == {NoEdit} \cup {<<v>> : v \in EditVals}
\* A frame's inputs: the user's edit, and whether the toolkit clamps (which
\* matters only without an edit).
FrameInputs == {<<NoEdit, c>> : c \in BOOLEAN} \cup {<<e, FALSE>> : e \in Edits \ {NoEdit}}
None == "None"

RECURSIVE SeqsUpTo(_, _)
SeqsUpTo(S, n) ==
  IF n = 0 THEN {<<>>}
  ELSE LET shorter == SeqsUpTo(S, n - 1)
       IN shorter \cup {Append(s, e) : s \in {t \in shorter : Len(t) = n - 1}, e \in S}

Batches == SeqsUpTo(EventKinds, MaxBatch)

VARIABLES
  overflow_checks, \* build profile: u8 overflow panics (TRUE) or wraps (FALSE)
  panicked,        \* a panic has unwound out of a host callback: the plugin is dead
  notes,           \* Whisper.notes: u8
  amplitude,       \* WhisperParameters.amplitude: AtomicFloat, units of 1/One
  gui,             \* VstGui.gui: None or the session (named by its parent window)
  alive,           \* the GUI sessions that exist: parent window -> how many
  pc_audio,        \* audio thread: "ready" or "render" (inside process)
  amp_local,       \* process: the local `amplitude` read at line 90
  out,             \* process: the output buffer, out[channel][sample]
  pos,             \* process: number of samples written so far, channel-major
  pc_gui,          \* GUI thread: "ready" or "frame" (inside MyApp::update)
  frame_amp,       \* update: the local `amplitude` read at line 272
  ons,             \* history: MIDI note-on events received (any channel)
  offs,            \* history: MIDI note-off events received (any channel)
  ordered,         \* history: no note-on was received after a note-off
  prefixOK,        \* history: every prefix had at least as many note-ons as note-offs
  call             \* SpecCalls, SpecEditor, SpecFrame: the most recent call and its result

vars == <<overflow_checks, panicked, notes, amplitude, gui, alive, pc_audio,
          amp_local, out, pos, pc_gui, frame_amp, ons, offs, ordered, prefixOK, call>>

audioVars == <<pc_audio, amp_local, out, pos>>
histVars == <<ons, offs, ordered, prefixOK>>
guiVars == <<gui, alive, pc_gui, frame_amp>>

\* The record of a host call: its name, its arguments and what it returned.
NoCall == [op |-> "none", index |-> 0, val |-> 0, ret |-> 0, text |-> "",
           flag |-> FALSE, arg |-> "", pre |-> "None", peak |-> 0,
           n_notes |-> 0, n_others |-> 0, last |-> 0, created |-> FALSE,
           pumped |-> 0, edited |-> FALSE]
NoSessions == [p \in Parents |-> 0]

RECURSIVE SumOver(_, _)
SumOver(S, a) ==
  IF S = {} THEN 0
  ELSE LET p == CHOOSE q \in S : TRUE IN a[p] + SumOver(S \ {p}, a)

\* The number of GUI sessions that exist.
Live(a) == SumOver(Parents, a)
Max(x, y) == IF x >= y THEN x ELSE y

\* A MIDI status byte is a note-on when its high nibble is 9 and a note-off
\* when it is 8; the low nibble is the channel.
IsNoteOn(ev) == ev.kind = "Midi" /\ ev.data0 \div 16 = 9
IsNoteOff(ev) == ev.kind = "Midi" /\ ev.data0 \div 16 = 8

\* ------------------------------------------------------------ construction
Init ==
  /\ overflow_checks \in BOOLEAN
  /\ panicked = FALSE
  /\ notes = 0
  /\ amplitude = DefaultAmplitude
  /\ gui = None
  /\ alive = NoSessions
  /\ pc_audio = "ready"
  /\ amp_local = 0
  /\ out = <<>>
  /\ pos = 0
  /\ pc_gui = "ready"
  /\ frame_amp = 0
  /\ ons = 0
  /\ offs = 0
  /\ ordered = TRUE
  /\ prefixOK = TRUE
  /\ call = NoCall

\* ---------------------------------------------------------- process_events
\* `self.notes += 1u8` on a u8.
u8_add(st) ==
  IF st.notes + 1 >= U8Mod
  THEN IF overflow_checks THEN [st EXCEPT !.panicked = TRUE]
       ELSE [st EXCEPT !.notes = (st.notes + 1) % U8Mod]
  ELSE [st EXCEPT !.notes = st.notes + 1]

\* Mutant of u8_sub: the subtraction saturates at 0.
u8_sub_saturating(st) ==
  IF st.notes - 1 < 0 THEN st ELSE [st EXCEPT !.notes = st.notes - 1]

\* `self.notes -= 1u8` on a u8.
u8_sub(st) ==
  IF st.notes - 1 < 0
  THEN IF overflow_checks THEN [st EXCEPT !.panicked = TRUE]
       ELSE [st EXCEPT !.notes = (st.notes - 1) % U8Mod]
  ELSE [st EXCEPT !.notes = st.notes - 1]

\* Mutant of on_event: every status byte from 144 up counts as a note-on.
on_event_wide_match(st, ev) ==
  IF ev.kind = "Midi"
  THEN CASE ev.data0 >= NOTE_ON -> u8_add(st)
         [] ev.data0 = NOTE_OFF -> u8_sub(st)
         [] OTHER -> st
  ELSE st

\* The body of the `for` loop: one event.
on_event(st, ev) ==
  IF ev.kind = "Midi"
  THEN CASE ev.data0 = NOTE_ON -> u8_add(st)
         [] ev.data0 = NOTE_OFF -> u8_sub(st)
         [] OTHER -> st
  ELSE st

\* The history of the events the loop has handled.
on_event_hist(h, ev) ==
  LET o == IF IsNoteOn(ev) THEN h.ons + 1 ELSE h.ons
      f == IF IsNoteOff(ev) THEN h.offs + 1 ELSE h.offs
  IN [ons |-> o, offs |-> f,
      ordered |-> h.ordered /\ ~(IsNoteOn(ev) /\ h.offs > 0),
      prefixOK |-> h.prefixOK /\ o >= f]

\* The loop over the batch; a panic ends it.
RECURSIVE process_events(_, _, _)
process_events(st, h, events) ==
  IF events = <<>> \/ st.panicked THEN [st |-> st, h |-> h]
  ELSE process_events(on_event(st, Head(events)), on_event_hist(h, Head(events)),
                      Tail(events))

RECURSIVE CountNotes(_)
CountNotes(events) ==
  IF events = <<>> THEN 0
  ELSE (IF IsNoteOn(Head(events)) \/ IsNoteOff(Head(events)) THEN 1 ELSE 0)
       + CountNotes(Tail(events))

EventsStep(events) ==
  /\ ~panicked
  /\ pc_audio = "ready"
  /\ ons + offs + CountNotes(events) <= MaxEvents
  /\ \E r \in {process_events([notes |-> notes, panicked |-> panicked],
                                [ons |-> ons, offs |-> offs, ordered |-> ordered,
                                 prefixOK |-> prefixOK], events)} :
        /\ notes' = r.st.notes
        /\ panicked' = r.st.panicked
        /\ ons' = r.h.ons
        /\ offs' = r.h.offs
        /\ ordered' = r.h.ordered
        /\ prefixOK' = r.h.prefixOK
  /\ UNCHANGED <<overflow_checks, amplitude, guiVars, pc_audio, amp_local, pos>>

\* The host delivers a batch of events on the audio thread.
ProcessEvents(events) == EventsStep(events) /\ UNCHANGED <<out, call>>

\* ----------------------------------------------------------------- process
NumCells == NumChannels * NumSamples
Channel(k) == (k \div NumSamples) + 1
Index(k) == (k % NumSamples) + 1

\* Mutant of noise_sample: the draw is not centred on zero.
noise_sample_uncentred(a, r) == a * (2 * r)

\* amplitude * (random::<f32>() - 0.5f32) * 2f32, in units of 1/(One*One).
noise_sample(a, r) == a * (2 * r - One)

\* Line 99: the branch process takes.
is_silent(n) == n = 0

\* Lines 103 and 117: the value stored in one sample.
sample_value(n, a, r) == IF is_silent(n) THEN 0 ELSE noise_sample(a, r)

\* Mutant of write_sample: every write lands in the first channel.
write_sample_first_channel(buf, k, v) == [buf EXCEPT ![1][Index(k)] = v]

\* `*output_sample = v` for the k-th sample of the channel-major iteration.
write_sample(buf, k, v) == [buf EXCEPT ![Channel(k)][Index(k)] = v]

\* Line 95: the output half of the host's buffer, holding `prior`.
host_buffer(prior) == [c \in 1..NumChannels |-> [i \in 1..NumSamples |-> prior]]

\* Mutant of ProcessBegin: process stores the amplitude back, limited to 1.0.
ProcessBegin_limits_parameter(prior) ==
  /\ ~panicked
  /\ pc_audio = "ready"
  /\ pc_audio' = "render"
  /\ amp_local' = amplitude
  /\ amplitude' = IF amplitude > One THEN One ELSE amplitude
  /\ out' = host_buffer(prior)
  /\ pos' = 0
  /\ UNCHANGED call
  /\ UNCHANGED <<overflow_checks, panicked, notes, guiVars, histVars>>

\* Lines 90-95: read the amplitude, take the host's buffer.
ProcessBegin(prior) ==
  /\ ~panicked
  /\ pc_audio = "ready"
  /\ pc_audio' = "render"
  /\ amp_local' = amplitude
  /\ out' = host_buffer(prior)
  /\ pos' = 0
  /\ UNCHANGED call
  /\ UNCHANGED <<overflow_checks, panicked, notes, amplitude, guiVars, histVars>>

\* Lines 100-105: one sample of the silence loop.
ProcessSilence ==
  /\ ~panicked
  /\ pc_audio = "render"
  /\ pos < NumCells
  /\ is_silent(notes)
  /\ out' = write_sample(out, pos, sample_value(notes, amp_local, 0))
  /\ pos' = pos + 1
  /\ UNCHANGED call
  /\ UNCHANGED <<overflow_checks, panicked, notes, amplitude, guiVars, histVars,
                 pc_audio, amp_local>>

\* Mutant of ProcessNoise: the amplitude is read again for every sample.
ProcessNoise_rereads(r) ==
  /\ ~panicked
  /\ pc_audio = "render"
  /\ pos < NumCells
  /\ ~is_silent(notes)
  /\ out' = write_sample(out, pos, sample_value(notes, amplitude, r))
  /\ pos' = pos + 1
  /\ UNCHANGED call
  /\ UNCHANGED <<overflow_checks, panicked, notes, amplitude, guiVars, histVars,
                 pc_audio, amp_local>>

\* Lines 112-119: one sample of the noise loop.
ProcessNoise(r) ==
  /\ ~panicked
  /\ pc_audio = "render"
  /\ pos < NumCells
  /\ ~is_silent(notes)
  /\ out' = write_sample(out, pos, sample_value(notes, amp_local, r))
  /\ pos' = pos + 1
  /\ UNCHANGED call
  /\ UNCHANGED <<overflow_checks, panicked, notes, amplitude, guiVars, histVars,
                 pc_audio, amp_local>>

\* Lines 106 and 120: process returns and the host takes the buffer.
ProcessReturn ==
  /\ ~panicked
  /\ pc_audio = "render"
  /\ pos = NumCells
  /\ pc_audio' = "ready"
  /\ amp_local' = 0
  /\ out' = <<>>
  /\ pos' = 0
  /\ UNCHANGED call
  /\ UNCHANGED <<overflow_checks, panicked, notes, amplitude, guiVars, histVars>>

\* -------------------------------------------------------- parameter object
\* Mutant of set_parameter: the amplitude sits at index 1.
set_parameter_off_by_one(amp, index, val) ==
  IF index = 1 THEN val ELSE amp

\* WhisperParameters::set_parameter: the amplitude after the call.
set_parameter(amp, index, val) ==
  IF index = 0 THEN val ELSE amp

\* Mutant of get_parameter: the index is not looked at.
get_parameter_any_index(amp, index) == amp

\* WhisperParameters::get_parameter.
get_parameter(amp, index) ==
  IF index = 0 THEN amp ELSE 0

\* format!("{:.2}", x) of x = amp/One: the integer part, a point and the
\* hundredths in two digits, rounded half to even.
Digits == <<"0", "1", "2", "3", "4", "5", "6", "7", "8", "9">>
RECURSIVE NatToString(_)
NatToString(n) ==
  IF n < 10 THEN Digits[n + 1] ELSE NatToString(n \div 10) \o Digits[(n % 10) + 1]

format_2(amp) ==
  LET mag == IF amp < 0 THEN -amp ELSE amp
      q == (mag * 100) \div One
      rem == (mag * 100) % One
      h == IF 2 * rem > One \/ (2 * rem = One /\ q % 2 = 1) THEN q + 1 ELSE q
  IN (IF amp < 0 /\ h > 0 THEN "-" ELSE "")
     \o NatToString(h \div 100) \o "." \o Digits[((h % 100) \div 10) + 1]
     \o Digits[(h % 10) + 1]

\* WhisperParameters::get_parameter_text.
get_parameter_text(amp, index) ==
  IF index = 0 THEN format_2(amp) ELSE ""

\* WhisperParameters::get_parameter_name.
get_parameter_name(index) ==
  IF index = 0 THEN "Amplitude" ELSE ""

\* The host automates the parameter; it may do so from any thread.
HostSetParameter(index, val) ==
  /\ ~panicked
  /\ amplitude' = set_parameter(amplitude, index, val)
  /\ UNCHANGED call
  /\ UNCHANGED <<overflow_checks, panicked, notes, guiVars, audioVars, histVars>>

\* ------------------------------------------------------------------ editor
\* Mutant of close: the session is closed but stays in `gui` (as_mut for take).
close_keeps_handle(g, a) ==
  IF g # None THEN [gui |-> g, alive |-> [a EXCEPT ![g] = a[g] - 1], closed |-> 1]
  ELSE [gui |-> g, alive |-> a, closed |-> 0]

\* VstGui::close (lines 206-211): take the session, if any, and close it.
\* `closed` counts the sessions it called close on.
close(g, a) ==
  IF g # None THEN [gui |-> None, alive |-> [a EXCEPT ![g] = a[g] - 1], closed |-> 1]
  ELSE [gui |-> g, alive |-> a, closed |-> 0]

\* Mutant of open: no close first; the session held is overwritten.
open_without_close(g, a, parent) ==
  LET created == [a EXCEPT ![parent] = a[parent] + 1]
  IN [gui |-> parent, alive |-> created, peak |-> Max(Live(a), Live(created))]

\* Mutant of open: the new session is created before the old one is closed.
open_create_before_close(g, a, parent) ==
  LET created == [a EXCEPT ![parent] = a[parent] + 1]
      c == close(g, created)
  IN [gui |-> parent, alive |-> c.alive,
      peak |-> Max(Max(Live(a), Live(created)), Live(c.alive))]

\* Editor::open (lines 223-241): close, then create a session under `parent`.
\* `peak` is the largest number of sessions that existed at once during the call.
open(g, a, parent) ==
  LET c == close(g, a)
      created == [c.alive EXCEPT ![parent] = c.alive[parent] + 1]
  IN [gui |-> parent, alive |-> created,
      peak |-> Max(Max(Live(a), Live(c.alive)), Live(created))]

\* Editor::is_open.
is_open(g) == g # None

\* Line 273: the slider. An edit by the user gives the edited value; without
\* one the value stays, except that the toolkit may clamp a value outside the
\* slider's range 0.0..=1.0 (`clamps`).
Clamp(v) == IF v < 0 THEN 0 ELSE IF v > One THEN One ELSE v
slider(value, edit, clamps) ==
  IF edit # NoEdit THEN edit[1]
  ELSE IF clamps THEN Clamp(value) ELSE value

Open(parent) ==
  /\ ~panicked
  /\ pc_gui = "ready"
  /\ LET r == open(gui, alive, parent)
     IN gui' = r.gui /\ alive' = r.alive
  /\ UNCHANGED call
  /\ UNCHANGED <<overflow_checks, panicked, notes, amplitude, pc_gui, frame_amp,
                 audioVars, histVars>>

Close ==
  /\ ~panicked
  /\ pc_gui = "ready"
  /\ LET r == close(gui, alive)
     IN gui' = r.gui /\ alive' = r.alive
  /\ UNCHANGED call
  /\ UNCHANGED <<overflow_checks, panicked, notes, amplitude, pc_gui, frame_amp,
                 audioVars, histVars>>

\* Mutant of idle_end: the pump's result is dropped.
idle_end_ignores_exit(g, a, exit) == [gui |-> g, alive |-> a]

\* Editor::idle, lines 244-252, after the pump returned `exit`.
idle_end(g, a, exit) ==
  IF g # None /\ exit THEN [gui |-> None, alive |-> [a EXCEPT ![g] = a[g] - 1]]
  ELSE [gui |-> g, alive |-> a]

\* Line 245: the number of sessions idle() pumps.
idle_pumped(g) == IF g # None THEN 1 ELSE 0

\* Mutant of idle_frame: a frame is drawn although no session is held.
idle_frame_without_session(g, amp, frame, edit, clamps) ==
  IF frame THEN slider(amp, edit, clamps) ELSE amp

\* Lines 245-247: the amplitude after the pump, which runs MyApp::update when
\* a session is held and it draws a frame.
idle_frame(g, amp, frame, edit, clamps) ==
  IF g # None /\ frame THEN slider(amp, edit, clamps) ELSE amp

\* idle() when the pump draws no frame (and all of idle() when gui is None).
IdleNoFrame(exit) ==
  /\ ~panicked
  /\ pc_gui = "ready"
  /\ LET r == idle_end(gui, alive, exit)
     IN gui' = r.gui /\ alive' = r.alive
  /\ UNCHANGED call
  /\ UNCHANGED <<overflow_checks, panicked, notes, amplitude, pc_gui, frame_amp,
                 audioVars, histVars>>

\* idle() when the pump draws a frame: MyApp::update reads the amplitude
\* (line 272) ...
FrameReadStep ==
  /\ ~panicked
  /\ pc_gui = "ready"
  /\ gui # None
  /\ pc_gui' = "frame"
  /\ frame_amp' = amplitude
  /\ UNCHANGED <<overflow_checks, panicked, notes, amplitude, gui, alive,
                 audioVars, histVars>>

IdleFrameRead == FrameReadStep /\ UNCHANGED call

\* ... and writes the slider's value back (line 274); the pump returns `exit`.
FrameWriteStep(edit, clamps, exit) ==
  /\ ~panicked
  /\ pc_gui = "frame"
  /\ amplitude' = slider(frame_amp, edit, clamps)
  /\ LET r == idle_end(gui, alive, exit)
     IN gui' = r.gui /\ alive' = r.alive
  /\ pc_gui' = "ready"
  /\ frame_amp' = 0
  /\ UNCHANGED <<overflow_checks, panicked, notes, audioVars, histVars>>

IdleFrameWrite(edit, clamps, exit) == FrameWriteStep(edit, clamps, exit) /\ UNCHANGED call

Next ==
  \/ \E events \in Batches : ProcessEvents(events)
  \/ \E prior \in PriorVals : ProcessBegin(prior)
  \/ ProcessSilence
  \/ \E r \in RandVals : ProcessNoise(r)
  \/ ProcessReturn
  \/ \E index \in Indices, val \in HostVals : HostSetParameter(index, val)
  \/ \E parent \in Parents : Open(parent)
  \/ Close
  \/ \E exit \in BOOLEAN : IdleNoFrame(exit)
  \/ IdleFrameRead
  \/ \E f \in FrameInputs, exit \in BOOLEAN : IdleFrameWrite(f[1], f[2], exit)

Spec == Init /\ [][Next]_vars

\* ------------------------------------------------- the host's calls, one by one
\* The same handlers, each run to completion and recorded in `call` with its
\* arguments and its result: the plugin as a host sees it between callbacks.
\* SpecCalls is the plugin and its parameter object, SpecEditor the editor
\* with the parameter it edits.
fineVars == <<overflow_checks, pc_audio, amp_local, pos, pc_gui, frame_amp>>

\* The status byte of the last event of a batch (0 when there is none).
LastStatus(events) == IF events = <<>> THEN 0 ELSE events[Len(events)].data0

CallProcessEvents(events) ==
  /\ EventsStep(events)
  /\ out' = <<>>
  /\ call' = [NoCall EXCEPT !.op = "process_events",
                            !.n_notes = CountNotes(events),
                            !.n_others = Len(events) - CountNotes(events),
                            !.last = LastStatus(events)]

\* The loops of process over the whole buffer, rs[k] being the k-th random draw.
RECURSIVE render(_, _, _, _, _)
render(buf, k, n, a, rs) ==
  IF k = NumCells THEN buf
  ELSE render(write_sample(buf, k, sample_value(n, a, rs[k])), k + 1, n, a, rs)

\* Whisper::process, lines 89-120.
process(n, a, prior, rs) == render(host_buffer(prior), 0, n, a, rs)

Draws == [0..(NumCells - 1) -> RandVals]

CallProcess(prior, rs) ==
  /\ ~panicked
  /\ out' = process(notes, amplitude, prior, rs)
  /\ call' = [NoCall EXCEPT !.op = "process", !.val = amplitude, !.ret = prior]
  /\ UNCHANGED <<panicked, notes, amplitude, guiVars, histVars, fineVars>>

CallSetParameter(index, val) ==
  /\ ~panicked
  /\ amplitude' = set_parameter(amplitude, index, val)
  /\ out' = <<>>
  /\ call' = [NoCall EXCEPT !.op = "set_parameter", !.index = index, !.val = val]
  /\ UNCHANGED <<panicked, notes, guiVars, histVars, fineVars>>

CallGetParameter(index) ==
  /\ ~panicked
  /\ out' = <<>>
  /\ call' = [NoCall EXCEPT !.op = "get_parameter", !.index = index,
                            !.ret = get_parameter(amplitude, index)]
  /\ UNCHANGED <<panicked, notes, amplitude, guiVars, histVars, fineVars>>

CallGetParameterText(index) ==
  /\ ~panicked
  /\ out' = <<>>
  /\ call' = [NoCall EXCEPT !.op = "get_parameter_text", !.index = index,
                            !.text = get_parameter_text(amplitude, index)]
  /\ UNCHANGED <<panicked, notes, amplitude, guiVars, histVars, fineVars>>

CallGetParameterName(index) ==
  /\ ~panicked
  /\ out' = <<>>
  /\ call' = [NoCall EXCEPT !.op = "get_parameter_name", !.index = index,
                            !.text = get_parameter_name(index)]
  /\ UNCHANGED <<panicked, notes, amplitude, guiVars, histVars, fineVars>>

CallOpen(parent) ==
  /\ ~panicked
  /\ LET r == open(gui, alive, parent)
     IN /\ gui' = r.gui
        /\ alive' = r.alive
        /\ call' = [NoCall EXCEPT !.op = "open", !.arg = parent, !.pre = gui,
                                  !.flag = TRUE, !.peak = r.peak, !.created = TRUE]
  /\ out' = <<>>
  /\ UNCHANGED <<panicked, notes, amplitude, histVars, fineVars>>

\* Editor::open when eframe::idle_wgpu cannot create the session. idle_wgpu
\* hands back the session itself, not a Result, and `true` (line 240) is the
\* only value open returns: a failure can leave line 232 only as a panic,
\* after close() has run, and it unwinds into the host.
CallOpenFails(parent) ==
  /\ ~panicked
  /\ LET c == close(gui, alive)
     IN /\ gui' = c.gui
        /\ alive' = c.alive
        /\ call' = [NoCall EXCEPT !.op = "open", !.arg = parent, !.pre = gui,
                                  !.peak = Max(Live(alive), Live(c.alive))]
  /\ panicked' = TRUE
  /\ out' = <<>>
  /\ UNCHANGED <<notes, amplitude, histVars, fineVars>>

CallClose ==
  /\ ~panicked
  /\ LET r == close(gui, alive)
     IN /\ gui' = r.gui
        /\ alive' = r.alive
        /\ call' = [NoCall EXCEPT !.op = "close", !.pre = gui, !.ret = r.closed]
  /\ out' = <<>>
  /\ UNCHANGED <<panicked, notes, amplitude, histVars, fineVars>>

CallIsOpen ==
  /\ ~panicked
  /\ out' = <<>>
  /\ call' = [NoCall EXCEPT !.op = "is_open", !.pre = gui, !.flag = is_open(gui)]
  /\ UNCHANGED <<panicked, notes, amplitude, guiVars, histVars, fineVars>>

\* Editor::idle, the frame (if the pump draws one) included.
CallIdle(frame, edit, clamps, exit) ==
  /\ ~panicked
  /\ amplitude' = idle_frame(gui, amplitude, frame, edit, clamps)
  /\ LET r == idle_end(gui, alive, exit)
     IN gui' = r.gui /\ alive' = r.alive
  /\ out' = <<>>
  /\ call' = [NoCall EXCEPT !.op = "idle", !.pre = gui,
                            !.flag = (gui # None /\ exit),
                            !.pumped = idle_pumped(gui)]
  /\ UNCHANGED <<panicked, notes, histVars, fineVars>>

NextCalls ==
  \/ \E events \in Batches : CallProcessEvents(events)
  \/ \E prior \in PriorVals, rs \in Draws : CallProcess(prior, rs)
  \/ \E index \in Indices, val \in HostVals : CallSetParameter(index, val)
  \/ \E index \in Indices : CallGetParameter(index)
  \/ \E index \in Indices : CallGetParameterText(index)
  \/ \E index \in Indices : CallGetParameterName(index)

SpecCalls == Init /\ [][NextCalls]_vars

NextEditor ==
  \/ \E parent \in Parents : CallOpen(parent)
  \/ \E parent \in Parents : CallOpenFails(parent)
  \/ CallClose
  \/ CallIsOpen
  \/ \E exit \in BOOLEAN : CallIdle(FALSE, NoEdit, FALSE, exit)
  \/ \E f \in FrameInputs, exit \in BOOLEAN : CallIdle(TRUE, f[1], f[2], exit)
  \/ \E index \in Indices, val \in HostVals : CallSetParameter(index, val)

SpecEditor == Init /\ [][NextEditor]_vars

\* ------------------------------------- the GUI frame against the host's writes
\* The editor's calls on the GUI thread, with the frame of idle() in its two
\* steps (the read of line 272, the write of line 274), and the host's
\* set_parameter, which may land between any two of them; every step recorded.
CallFrameRead ==
  /\ FrameReadStep
  /\ call' = [NoCall EXCEPT !.op = "frame_read", !.pre = gui, !.ret = amplitude]

\* `ret` is the value the frame read, `val` the value its write replaced.
CallFrameWrite(edit, clamps, exit) ==
  /\ FrameWriteStep(edit, clamps, exit)
  /\ call' = [NoCall EXCEPT !.op = "frame_write", !.pre = gui, !.ret = frame_amp,
                            !.val = amplitude, !.edited = (edit # NoEdit),
                            !.flag = exit]

NextFrame ==
  \/ \E parent \in Parents : pc_gui = "ready" /\ CallOpen(parent)
  \/ pc_gui = "ready" /\ CallClose
  \/ \E exit \in BOOLEAN : pc_gui = "ready" /\ CallIdle(FALSE, NoEdit, FALSE, exit)
  \/ CallFrameRead
  \/ \E f \in FrameInputs, exit \in BOOLEAN : CallFrameWrite(f[1], f[2], exit)
  \/ \E index \in Indices, val \in HostVals : CallSetParameter(index, val)

SpecFrame == Init /\ [][NextFrame]_vars

\* ------------------------------------------------------------------ claims
Cells == 0..(NumCells - 1)
Sample(buf, k) == buf[Channel(k)][Index(k)]
HasShape(buf) ==
  /\ DOMAIN buf = 1..NumChannels
  /\ \A c \in 1..NumChannels : DOMAIN buf[c] = 1..NumSamples
AllZero(buf) == HasShape(buf) /\ \A k \in Cells : Sample(buf, k) = 0
\* process has stored a sample that is not silence (fine-grained process).
NonSilentWritten ==
  pc_audio = "render" /\ \E k \in Cells : k < pos /\ Sample(out, k) # 0
coreVars == <<panicked, notes, amplitude, gui, alive, ons, offs, ordered, prefixOK>>
Ignorable(ev) == ~IsNoteOn(ev) /\ ~IsNoteOff(ev)

\* C1: whenever process is called while the held-note counter is 0, every
\* sample of every output channel is 0.0 afterwards, whatever the amplitude
\* and whatever the buffer held before.
C1_SilenceWhenNoNote ==
  (call.op = "process" /\ notes = 0) => AllZero(out)

C1_Witness ==
  /\ call.op = "process"
  /\ notes = 0
  /\ call.ret = Dirty
  /\ call.val = One
  /\ AllZero(out)

\* C2: process produces non-silent output only if more note-on events than
\* note-off events have been received.
C2_NoiseOnlyWhenHeld ==
  NonSilentWritten => ons > offs

\* C3: after n note-ons followed by n note-offs, in any split across
\* process_events calls, the counter is 0 and process renders silence.
C3_BalancedThenInactive ==
  (ordered /\ ons = offs /\ ~panicked) => (notes = 0 /\ ~NonSilentWritten)

\* C4: after events of which every prefix has at least as many note-ons as
\* note-offs, the plugin is active exactly if more note-ons than note-offs
\* were received.
C4_ActiveIffMoreOns ==
  (prefixOK /\ ~panicked) => ((notes > 0) <=> (ons > offs))

\* C5: every MIDI note-on, on any channel, increments the counter by exactly
\* one and every MIDI note-off, on any channel, decrements it by exactly one
\* (one step of the 8-bit counter: the count is taken modulo 2^8).
C5_EveryNoteCounts ==
  [][~panicked'
       => notes' = (notes + (ons' - ons) - (offs' - offs)) % U8Mod]_vars

\* C6: process_events leaves the counter unchanged for every non-MIDI event
\* and every MIDI event that is neither a note-on nor a note-off, and a batch
\* of only such events leaves the whole plugin state unchanged.
C6_IgnoredEventsChangeNothing ==
  /\ [](\A ev \in EventKinds :
          Ignorable(ev) =>
            LET st == [notes |-> notes, panicked |-> panicked]
            IN on_event(st, ev) = st)
  /\ [][(call'.op = "process_events" /\ call'.n_notes = 0)
          => UNCHANGED <<coreVars, fineVars>>]_vars

C6_Witness ==
  /\ call.op = "process_events"
  /\ call.n_notes = 0
  /\ call.n_others >= 2
  /\ notes = 1

\* C7: for v in [0,1], set_parameter(0, v) followed by get_parameter(0)
\* returns v, and the next process call reads v as its amplitude: the set
\* stores v, no other call changes it, and process scales by what is stored.
InUnitRange(v) == 0 <= v /\ v <= One
C7_SetThenGetAndProcess ==
  /\ []((call.op = "set_parameter" /\ call.index = 0 /\ InUnitRange(call.val))
         => amplitude = call.val)
  /\ []((call.op = "process")
         => /\ call.val = amplitude
            /\ HasShape(out)
            /\ \A k \in Cells :
                 \/ notes = 0
                 \/ \E r \in RandVals : Sample(out, k) = noise_sample(amplitude, r))
  /\ [][(call.op = "set_parameter" /\ call.index = 0 /\ InUnitRange(call.val))
          => /\ (call'.op = "get_parameter" /\ call'.index = 0)
                  => call'.ret = call.val
             /\ call'.op = "process" => call'.val = call.val]_vars
  /\ [][call'.op # "set_parameter" => amplitude' = amplitude]_vars

C7_Witness ==
  /\ call.op = "process"
  /\ call.val = One
  /\ notes > 0
  /\ \E k \in Cells : Sample(out, k) = noise_sample(One, 0)

\* C8: for every index other than 0, set_parameter changes nothing,
\* get_parameter returns 0.0 and the name and the text are empty; index 0 is
\* the one slot, the amplitude.
C8_OnlyIndexZero ==
  /\ []((call.op = "get_parameter")
         => call.ret = IF call.index = 0 THEN amplitude ELSE 0)
  /\ []((call.op \in {"get_parameter_text", "get_parameter_name"} /\ call.index # 0)
         => call.text = "")
  /\ []((call.op \in {"get_parameter_text", "get_parameter_name"} /\ call.index = 0)
         => call.text # "")
  /\ [][(call'.op = "set_parameter" /\ call'.index # 0)
          => UNCHANGED <<coreVars, fineVars>>]_vars

C8_Witness ==
  /\ call.op = "set_parameter"
  /\ call.index # 0
  /\ call.val # amplitude
  /\ amplitude # DefaultAmplitude

\* C9: after close() the editor is Closed and is_open() returns false, from
\* any prior state; close() on a Closed editor changes nothing and closes no
\* session.
C9_CloseIsIdempotent ==
  /\ []((call.op = "close")
         => /\ gui = None
            /\ ~is_open(gui)
            /\ Live(alive) = 0
            /\ call.ret = IF call.pre = None THEN 0 ELSE 1)
  /\ [][(call'.op = "close" /\ gui = None)
          => UNCHANGED <<coreVars, fineVars>>]_vars
  /\ [][(call.op = "close" /\ call'.op = "is_open") => call'.flag = FALSE]_vars

C9_Witness ==
  /\ call.op = "close"
  /\ call.pre = None
  /\ call.ret = 0
  /\ gui = None
  /\ Live(alive) = 0

\* C10: open() on an Open editor is close() followed by open(): the session
\* held is closed before the new one is created, and the editor is Open with
\* exactly the new session.
C10_ReopenIsCloseThenOpen ==
  [][(call'.op = "open" /\ call'.created /\ gui # None)
       => LET c == close(gui, alive)
              o == open(c.gui, c.alive, call'.arg)
          IN /\ gui' = o.gui
             /\ alive' = o.alive
             /\ gui' = call'.arg
             /\ alive' = [NoSessions EXCEPT ![call'.arg] = 1]
             /\ call'.peak <= 1
             /\ UNCHANGED <<panicked, notes, amplitude>>]_vars

C10_Witness ==
  /\ call.op = "open"
  /\ call.created
  /\ call.pre # None
  /\ call.pre # call.arg
  /\ gui = call.arg
  /\ Live(alive) = 1

\* C11: in every reachable state, under any sequence of open, idle and close
\* calls, at most one GUI session is alive, also inside open: a session
\* exists only while the editor holds it.
C11_AtMostOneSession ==
  /\ Live(alive) <= 1
  /\ call.peak <= 1
  /\ gui = None => alive = NoSessions
  /\ gui # None => alive = [NoSessions EXCEPT ![gui] = 1]

C11_Witness ==
  /\ call.op = "open"
  /\ call.created
  /\ call.pre = call.arg
  /\ call.peak = 1
  /\ alive[call.arg] = 1

\* C12: idle() on an Open editor whose pump reports self-termination leaves
\* the editor Closed (is_open() returns false) with the session released;
\* when the pump reports none the editor stays Open with the same session.
C12_IdleSelfTermination ==
  /\ [][(call'.op = "idle" /\ gui # None)
          => /\ call'.pumped = 1
             /\ IF call'.flag
                  THEN gui' = None /\ ~is_open(gui') /\ alive' = NoSessions
                  ELSE gui' = gui /\ alive' = alive]_vars
  /\ [][(call.op = "idle" /\ call.flag /\ call'.op = "is_open")
          => call'.flag = FALSE]_vars
  /\ [][(call.op = "idle" /\ call.pre # None /\ ~call.flag /\ call'.op = "is_open")
          => call'.flag = TRUE]_vars

C12_Witness ==
  /\ call.op = "idle"
  /\ call.pre # None
  /\ call.flag
  /\ gui = None
  /\ Live(alive) = 0

\* C13: idle() on a Closed editor is a no-op: it pumps no session, leaves the
\* editor Closed and leaves the amplitude and the note counter unchanged.
C13_IdleOnClosedIsNoOp ==
  [][(call'.op = "idle" /\ gui = None)
       => /\ call'.pumped = 0
          /\ ~call'.flag
          /\ gui' = None
          /\ UNCHANGED <<coreVars, fineVars>>]_vars

C13_Witness ==
  /\ call.op = "idle"
  /\ call.pre = None
  /\ call.pumped = 0
  /\ gui = None
  /\ amplitude # DefaultAmplitude

\* C14: when creation of the embedded GUI session fails, open() returns
\* false and leaves the editor Closed; it neither returns success nor aborts.
C14_OpenReportsFailure ==
  (call.op = "open" /\ ~call.created)
    => (~panicked /\ call.flag = FALSE /\ gui = None)

\* C15: in every reachable state, under any interleaving of host
\* set_parameter calls and GUI frames, the amplitude is in [0.0, 1.0].
C15_AmplitudeInUnitRange ==
  InUnitRange(amplitude)

\* C16: when process is called while the plugin is active and the amplitude
\* is 1.0, every sample of every channel is in [-1.0, 1.0); for any amplitude
\* each sample is amplitude * (r - 0.5) * 2 for a draw r in [0, 1) of its own.
C16_SamplesInRange ==
  /\ (call.op = "process" /\ notes > 0 /\ call.val = One)
       => /\ HasShape(out)
          /\ \A k \in Cells :
               -(One * One) <= Sample(out, k) /\ Sample(out, k) < One * One
  /\ (call.op = "process" /\ notes > 0)
       => /\ HasShape(out)
          /\ \A k \in Cells :
               \E r \in 0..(One - 1) : Sample(out, k) = call.val * (2 * r - One)

C16_Witness ==
  /\ call.op = "process"
  /\ notes > 0
  /\ call.val = One
  /\ Sample(out, 0) = -(One * One)
  /\ Sample(out, 1) = One * (One - 2)

\* The batch of a process_events call ended in a note-off of status byte 128
\* and held no other note-on or note-off.
EndsInNoteOff(c) ==
  c.op = "process_events" /\ c.last = NOTE_OFF /\ c.n_notes = 1

\* process took the noise branch: every sample is amplitude * (r - 0.5) * 2.
NoiseRendered ==
  /\ HasShape(out)
  /\ \A k \in Cells : \E r \in RandVals : Sample(out, k) = call.val * (2 * r - One)

\* C17 as stated: a note-off processed while the counter is 0 makes the
\* 8-bit counter wrap around to 255, so the plugin is active and the next
\* process call renders noise although no note is held.
C17_UnderflowWraps ==
  /\ [][(EndsInNoteOff(call') /\ notes = 0)
          => (~panicked' /\ notes' = U8Mod - 1 /\ ~is_silent(notes'))]_vars
  /\ []((call.op = "process" /\ notes = U8Mod - 1) => NoiseRendered)

\* C17 as amended: in a build without overflow checks the counter wraps to
\* 255, the plugin is active and the next process call renders noise; in a
\* build with overflow checks the subtraction panics and the counter stays 0.
C17_UnderflowWrapsOrPanics ==
  /\ [][(EndsInNoteOff(call') /\ notes = 0)
          => IF overflow_checks
             THEN panicked' /\ notes' = 0
             ELSE ~panicked' /\ notes' = U8Mod - 1 /\ ~is_silent(notes')]_vars
  /\ []((call.op = "process" /\ notes = U8Mod - 1) => NoiseRendered)

C17_Witness ==
  /\ call.op = "process"
  /\ ~overflow_checks
  /\ notes = U8Mod - 1
  /\ ons = 0
  /\ offs = 1
  /\ call.val # 0
  /\ \A k \in Cells : Sample(out, k) # 0

\* The state of the audio path (the counter, the callback's locals and
\* buffer, the history of its events) and the state of the GUI path.
audioState == <<notes, panicked, audioVars, histVars>>
guiState == guiVars

\* C18: the amplitude is the only state shared between the two contexts: a
\* step of process_events or process never changes the amplitude or the
\* editor's session state, and a step of open, idle, close or the GUI frame
\* never changes the held-note counter (or anything else of the audio path).
C18_OnlyAmplitudeShared ==
  [][/\ (audioState' # audioState) => UNCHANGED <<amplitude, guiState>>
     /\ (guiState' # guiState) => UNCHANGED audioState]_vars

C18_Witness ==
  /\ pc_audio = "render"
  /\ pos > 0
  /\ notes > 0
  /\ pc_gui = "frame"
  /\ gui # None
  /\ amplitude # frame_amp
  /\ amplitude # amp_local

\* C19: a GUI frame in which the user does not edit the slider leaves the
\* amplitude unchanged under every interleaving: what a host set_parameter
\* stored between the frame's read and its write-back is still stored after
\* the frame (no lost update). Stated for values in the slider's range, where
\* the slider itself changes nothing.
C19_NoLostUpdate ==
  [][(call'.op = "frame_write" /\ ~call'.edited
        /\ InUnitRange(frame_amp) /\ InUnitRange(amplitude))
       => amplitude' = amplitude]_vars

\* C20: process reads the amplitude exactly once, at the start of the
\* callback: every sample one call has written, in every channel, is scaled
\* by that single value, also when the GUI or the host stores another
\* amplitude while the block is rendered; the new value is used from the
\* next call on.
C20_SingleAmplitudeRead ==
  /\ []((pc_audio = "render" /\ ~is_silent(notes))
         => \A k \in Cells :
              k < pos => \E r \in RandVals : Sample(out, k) = amp_local * (2 * r - One))
  /\ [][(pc_audio = "ready" /\ pc_audio' = "render") => amp_local' = amplitude]_vars
  /\ [][(pc_audio = "render" /\ pc_audio' = "render")
          => (amp_local' = amp_local /\ notes' = notes)]_vars

C20_Witness ==
  /\ pc_audio = "render"
  /\ pos = NumCells
  /\ notes > 0
  /\ amp_local = One
  /\ amplitude = 0
  /\ \A k \in Cells : Sample(out, k) # 0
====
